---- MODULE Spec2Model ----
(***************************************************************************)
(* A model of cargo-call-stack's call-graph construction and stack-bound   *)
(* propagation engine (src/src/main.rs, fn run).                           *)
(*                                                                         *)
(* The graph is petgraph's DiGraph: a sequence of node weights indexed by  *)
(* NodeIndex (here 1..Len) and a sequence of edges <<source, target>> in   *)
(* insertion order; parallel edges are possible.                           *)
(***************************************************************************)
EXTENDS Naturals, Integers, Sequences, FiniteSets, TLC

\* ------------------------------------------------------------------ bounds
NumNodes == 3
MaxEdges == 3

\* ------------------------------------------------------------- data model
\* enum Local { Exact(u64), Unknown }
LocalExact(k) == [tag |-> "Exact", n |-> k]
LocalUnknown == [tag |-> "Unknown", n |-> 0]

\* enum Max { Exact(u64), LowerBound(u64) }, and None of Option<Max>
MaxExact(k) == [tag |-> "Exact", n |-> k]
MaxLowerBound(k) == [tag |-> "LowerBound", n |-> k]
NoMax == [tag |-> "None", n |-> 0]

\* fn Node(name, stack: Option<u64>, dashed): None is written -1
NoStack == -1
Node(name, stack, dashed) ==
  [name |-> name,
   local |-> IF stack = NoStack THEN LocalUnknown ELSE LocalExact(stack),
   max |-> NoMax,
   dashed |-> dashed]

\* impl Into<Max> for Local
LocalIntoMax(l) ==
  IF l.tag = "Exact" THEN MaxExact(l.n) ELSE MaxLowerBound(0)

\* impl ops::Add<Local> for Max
AddLocalDropsUnknown(m, l) ==
  IF m.tag = "Exact" THEN MaxExact(m.n + l.n) ELSE MaxLowerBound(m.n + l.n)
AddLocal(m, l) ==
  IF m.tag = "Exact" /\ l.tag = "Exact" THEN MaxExact(m.n + l.n)
  ELSE IF l.tag = "Exact" THEN MaxLowerBound(m.n + l.n)
  ELSE MaxLowerBound(m.n)

\* impl ops::Add<Max> for Max
AddMax(a, b) ==
  IF a.tag = "Exact" /\ b.tag = "Exact" THEN MaxExact(a.n + b.n)
  ELSE MaxLowerBound(a.n + b.n)

\* fn max(lhs: Max, rhs: Max) -> Max
CmpMax(x, y) == IF x >= y THEN x ELSE y
MaxKeepsLeft(lhs, rhs) == lhs
max(lhs, rhs) ==
  IF lhs.tag = "Exact" /\ rhs.tag = "Exact" THEN MaxExact(CmpMax(lhs.n, rhs.n))
  ELSE MaxLowerBound(CmpMax(lhs.n, rhs.n))

\* fn max_of(iter) -> Option<Max>: a left fold of max over the items
RECURSIVE FoldMax(_, _)
FoldMax(acc, s) ==
  IF s = <<>> THEN acc ELSE FoldMax(max(acc, Head(s)), Tail(s))
max_of(s) == IF s = <<>> THEN NoMax ELSE FoldMax(Head(s), Tail(s))

\* ------------------------------------------------------------------ state
VARIABLES
  is_thumb,              \* target_.is_thumb()
  elf_symbols,           \* the defined symbols as read from the executable
  defines,               \* IR: name -> [sig, callees] of each defined function
  declares,              \* IR: name -> sig of each declared function
  tags,                  \* the $d and $t markers of .symtab, sorted by address
  has_text,              \* the executable has a .text section
  analyze,               \* address -> what thumb::analyze finds there
  start,                 \* args.start: the entry point, or "none"
  symbols,               \* [defined: address -> symbol, undefined: names]
  aliases,               \* name -> canonical name
  addr2name,             \* address -> canonical name
  indices,               \* name -> NodeIndex
  indirects,             \* signature -> [called, callers, callees]
  has_untyped_symbols,   \* some symbol has no IR function behind it
  edges,                 \* NodeIndex -> the callees seen for that caller
  defined,               \* canonical names of the functions the IR defines
  llvm_seen,             \* intrinsics already warned about
  ambiguous,             \* dehashed name -> number of symbols it shortens
  diagnostics,           \* the warn! and error! lines written so far
  pending,               \* the items the current loop has still to visit
  g,                     \* the call graph: [nodes, edges]
  has_stack_usage_info,  \* some defined symbol has a compiler-reported size
  todo,                  \* propagation: components / nodes not yet visited
  cycles,                \* the true cycles found by the SCC pass
  pc                     \* the phase of run()

inputs ==
  <<is_thumb, elf_symbols, defines, declares, tags, has_text, analyze, start>>
tables ==
  <<symbols, aliases, addr2name, indices, indirects, has_untyped_symbols,
    edges, defined, llvm_seen, ambiguous, pending>>
vars ==
  <<inputs, tables, diagnostics, g, has_stack_usage_info, todo, cycles, pc>>

\* ---------------------------------------------------------- graph helpers
NodeIds(gr) == 1..Len(gr.nodes)
RECURSIVE SelectSeqBy(_, _, _)
\* the items x of s with key(x) = k, in order
SelectSeqBy(s, i, keep) ==
  IF i > Len(s) THEN <<>>
  ELSE IF s[i] \in keep THEN <<s[i]>> \o SelectSeqBy(s, i + 1, keep)
  ELSE SelectSeqBy(s, i + 1, keep)

\* g.neighbors_directed(u, Outgoing): one item per edge leaving u
OutEdges(gr, u) == SelectSeqBy(gr.edges, 1, {<<u, v>> : v \in NodeIds(gr)})
Succ(gr, u) == {gr.edges[i][2] : i \in {j \in 1..Len(gr.edges) : gr.edges[j][1] = u}}

RECURSIVE Closure(_, _)
Closure(adj, S) ==
  LET T == S \cup UNION {adj[u] : u \in S}
  IN IF T = S THEN S ELSE Closure(adj, T)
Adjacency(gr) == [u \in NodeIds(gr) |-> Succ(gr, u)]
\* the nodes reachable from the set S by zero or more edges
ReachFrom(gr, S) == Closure(Adjacency(gr), S)
\* the nodes reachable from u by one or more edges
ReachPlus(gr, u) == ReachFrom(gr, Succ(gr, u))

\* algo::is_cyclic_directed
is_cyclic_directed(gr) ==
  LET adj == Adjacency(gr)
  IN \E u \in NodeIds(gr) : u \in Closure(adj, adj[u])

\* algo::kosaraju_scc: the strongly connected components
Sccs(gr) ==
  LET adj == Adjacency(gr)
      reach == [u \in NodeIds(gr) |-> Closure(adj, {u})]
  IN {{v \in reach[u] : u \in reach[v]} : u \in NodeIds(gr)}

RECURSIVE SetToSeq(_)
\* the members of a set of numbers in ascending order
SetToSeq(S) ==
  IF S = {} THEN <<>>
  ELSE LET m == CHOOSE x \in S : \A y \in S : x <= y
       IN <<m>> \o SetToSeq(S \ {m})

RECURSIVE MaxesOf(_, _)
\* g[neighbor].max for each edge target, in order
MaxesOf(gr, es) ==
  IF es = <<>> THEN <<>> ELSE <<gr.nodes[Head(es)[2]].max>> \o MaxesOf(gr, Tail(es))

RECURSIVE LocalsOf(_, _)
LocalsOf(gr, ns) ==
  IF ns = <<>> THEN <<>>
  ELSE <<LocalIntoMax(gr.nodes[Head(ns)].local)>> \o LocalsOf(gr, Tail(ns))

RECURSIVE ConcatOut(_, _, _)
\* the edges leaving the component, member by member (flat_map + filter_map)
ConcatOut(gr, ns, scc) ==
  IF ns = <<>> THEN <<>>
  ELSE SelectSeqBy(OutEdges(gr, Head(ns)), 1,
                   {<<Head(ns), v>> : v \in NodeIds(gr) \ scc})
       \o ConcatOut(gr, Tail(ns), scc)

\* a node whose callees all have their bound
Ready(gr, S) ==
  \A u \in S : \A v \in Succ(gr, u) : v \in S \/ gr.nodes[v].max.tag # "None"

SetMaxOfFirst(gr, S, m) ==
  [gr EXCEPT !.nodes = [i \in NodeIds(gr) |->
     IF i = (CHOOSE x \in S : \A y \in S : x <= y)
     THEN [gr.nodes[i] EXCEPT !.max = m] ELSE gr.nodes[i]]]
SetMax(gr, S, m) ==
  [gr EXCEPT !.nodes = [i \in NodeIds(gr) |->
     IF i \in S THEN [gr.nodes[i] EXCEPT !.max = m] ELSE gr.nodes[i]]]

\* -------------------------------------------------------------- name pools
\* str::starts_with and the like are modelled on the names the model uses
TagNames == {"$a", "$a.0", "$x", "$x.0"}
OutlinedNames == {"OUTLINED_FUNCTION_0", "OUTLINED_FUNCTION_7"}
NoOpIntrinsics ==
  {"llvm.dbg.value", "llvm.dbg.declare", "llvm.assume", "llvm.trap"}
LifetimeIntrinsics == {"llvm.lifetime.start.p0i8", "llvm.lifetime.end.p0i8"}
MemcpyIntrinsics == {"llvm.memcpy.p0i8.p0i8.i32"}
MemsetIntrinsics == {"llvm.memset.p0i8.i32", "llvm.memmove.p0i8.p0i8.i32"}
LoweredIntrinsics == {"llvm.umax.i32", "llvm.x86.sse2.pause"}
NoAliasIntrinsic == "llvm.experimental.noalias.scope.decl"
OtherIntrinsics == {"llvm.fabs.f32"}
StartsWithLlvm(func) ==
  func \in NoOpIntrinsics \cup LifetimeIntrinsics \cup MemcpyIntrinsics
           \cup MemsetIntrinsics \cup LoweredIntrinsics \cup {NoAliasIntrinsic}
           \cup OtherIntrinsics
SYMBOLLESS_INTRINSICS == {"memcmp"}
MemcpyTargets == <<"memcpy", "__aeabi_memcpy", "__aeabi_memcpy4">>
MemsetTargets ==
  <<"memset", "__aeabi_memset", "__aeabi_memset4", "memclr", "__aeabi_memclr",
    "__aeabi_memclr4">>

\* the filter of `names`: "$a", "$a.*", "$x" and "$x.*" are tags
\* rustc_demangle::demangle(name).to_string() on the mangled names of the
\* model; a name that is not mangled is printed as it is
demangle(name) ==
  CASE name = "_ZN3foo17h1111111111111111E" -> "foo::h1111111111111111"
    [] name = "_ZN3foo17h2222222222222222E" -> "foo::h2222222222222222"
    [] name = "_ZN3bar17h3333333333333333E" -> "bar::h3333333333333333"
    [] OTHER -> name
\* fn dehash: the name without its last 19 bytes when these start with
\* "::h", else "none"
dehash(demangled) ==
  CASE demangled \in {"foo::h1111111111111111", "foo::h2222222222222222"} -> "foo"
    [] demangled = "bar::h3333333333333333" -> "bar"
    [] OTHER -> "none"
\* demangle(key).starts_with(start + "::h")
StartsWithHashed(key, prefix) ==
  \/ prefix = "foo"
     /\ demangle(key) \in {"foo::h1111111111111111", "foo::h2222222222222222"}
  \/ prefix = "bar" /\ demangle(key) = "bar::h3333333333333333"
IsTag(name) == name \in TagNames
is_outlined_function(name) == name \in OutlinedNames

\* sym.rsplit("@@").nth(1): the name before a version string
StripVersion(sym) ==
  CASE sym = "ext@@V1" -> "ext"
    [] OTHER -> sym

\* ------------------------------------------------------------ map helpers
Has(m, k) == k \in DOMAIN m
Put(m, k, v) == (k :> v) @@ m
Range(s) == {s[i] : i \in DOMAIN s}
LeastOf(S) == CHOOSE x \in S : \A y \in S : x <= y
GreatestOf(S) == CHOOSE x \in S : \A y \in S : x >= y

\* g.add_node / g.add_edge
add_node(gr, node) == [gr EXCEPT !.nodes = Append(@, node)]
add_edge(gr, u, v) == [gr EXCEPT !.edges = Append(@, <<u, v>>)]

RECURSIVE FilterTags(_)
FilterTags(names) ==
  IF names = <<>> THEN <<>>
  ELSE IF IsTag(Head(names)) THEN FilterTags(Tail(names))
  ELSE <<Head(names)>> \o FilterTags(Tail(names))

RECURSIVE FirstIn(_, _)
\* names.iter().filter_map(|name| m.get(name)).next(): the key, or "none"
FirstIn(names, m) ==
  IF names = <<>> THEN "none"
  ELSE IF Has(m, Head(names)) THEN Head(names)
  ELSE FirstIn(Tail(names), m)

\* ------------------------------------------------- symbols and real nodes
\* k & !1
ClearBit(k) == k - (k % 2)

\* symbols.defined.into_iter().map(|(k, v)| (k & !1, v)).collect(): of two
\* symbols that land on one address the one met last (the greater) stays
ClearThumbBit(d) ==
  [b \in {ClearBit(a) : a \in DOMAIN d} |->
     d[GreatestOf({a \in DOMAIN d : ClearBit(a) = b})]]

\* stack_sizes: every name of every symbol -> that symbol's stack; of two
\* symbols with one name the one met last (the greater address) stays
StackSizes(d, name) ==
  d[GreatestOf({a \in DOMAIN d : name \in Range(d[a].names)})].stack

DefaultIndirect == [called |-> FALSE, callers |-> {}, callees |-> {}]
\* indirects.entry(sig).or_default().callees.insert(idx)
InsertCallee(ind, sig, idx) ==
  LET cur == IF Has(ind, sig) THEN ind[sig] ELSE DefaultIndirect
  IN Put(ind, sig, [cur EXCEPT !.callees = @ \cup {idx}])

\* clear the thumb bit, index by name, remove version strings
Start ==
  /\ pc = "start"
  /\ symbols' =
       [defined |-> IF is_thumb THEN ClearThumbBit(symbols.defined)
                    ELSE symbols.defined,
        undefined |-> {StripVersion(sym) : sym \in symbols.undefined}]
  /\ pending' = DOMAIN symbols'.defined
  /\ pc' = "nodes"
  /\ UNCHANGED <<inputs, ambiguous, diagnostics, aliases, addr2name, indices, indirects,
                 has_untyped_symbols, edges, defined, llvm_seen, g,
                 has_stack_usage_info, todo, cycles>>

RECURSIVE PutAll(_, _, _)
\* for name in names { aliases.insert(name, canonical_name) }
PutAll(m, names, v) ==
  IF names = <<>> THEN m ELSE PutAll(Put(m, Head(names), v), Tail(names), v)

\* the signature of the first name the IR defines, else of the first name
\* the IR declares, else "none"
SigOfNames(names) ==
  IF FirstIn(names, defines) # "none" THEN defines[FirstIn(names, defines)].sig
  ELSE IF FirstIn(names, declares) # "none"
  THEN declares[FirstIn(names, declares)]
  ELSE "none"

\* one iteration of `for (address, sym) in &symbols.defined` (add all real
\* nodes), in ascending address order
AddRealNode ==
  /\ pc = "nodes"
  /\ pending # {}
  /\ LET address == LeastOf(pending)
         names == FilterTags(symbols.defined[address].names)
     IN IF names = <<>>
        THEN \* names[0] panics
             /\ pc' = "fatal"
             /\ UNCHANGED <<aliases, addr2name, indices, indirects,
                            has_untyped_symbols, g, has_stack_usage_info,
                            ambiguous, diagnostics, pending>>
        ELSE LET canonical_name == names[1]
                 stack == StackSizes(symbols.defined, canonical_name)
                 idx == Len(g.nodes) + 1
                 sig == SigOfNames(names)
                 dehashed == dehash(demangle(canonical_name))
                 untyped == sig = "none" /\ ~is_outlined_function(canonical_name)
             IN /\ aliases' = PutAll(aliases, names, canonical_name)
                /\ ambiguous' =
                     IF dehashed = "none" THEN ambiguous
                     ELSE Put(ambiguous, dehashed,
                              IF Has(ambiguous, dehashed)
                              THEN ambiguous[dehashed] + 1 ELSE 1)
                /\ diagnostics' =
                     diagnostics
                     \cup (IF stack = NoStack /\ ~is_thumb
                           THEN {<<"no stack usage information", canonical_name>>}
                           ELSE {})
                     \cup (IF untyped
                           THEN {<<"no type information", canonical_name>>}
                           ELSE {})
                /\ addr2name' = Put(addr2name, address, canonical_name)
                /\ has_stack_usage_info' =
                     (has_stack_usage_info \/ stack # NoStack)
                /\ g' = add_node(g, Node(canonical_name, stack, FALSE))
                /\ indices' = Put(indices, canonical_name, idx)
                /\ indirects' =
                     IF sig # "none" THEN InsertCallee(indirects, sig, idx)
                     ELSE indirects
                /\ has_untyped_symbols' = (has_untyped_symbols \/ untyped)
                /\ pending' = pending \ {address}
                /\ pc' = pc
  /\ UNCHANGED <<inputs, symbols, edges, defined, llvm_seen, todo, cycles>>

EndNodes ==
  /\ pc = "nodes"
  /\ pending = {}
  /\ pc' = "edges"
  /\ pending' = DOMAIN defines
  /\ UNCHANGED <<inputs, ambiguous, diagnostics, symbols, aliases, addr2name, indices, indirects,
                 has_untyped_symbols, edges, defined, llvm_seen, g,
                 has_stack_usage_info, todo, cycles>>

\* ------------------------------------------------------------ IR edges
Direct(name) == [kind |-> "Direct", arg |-> name]
Indirect(sig) == [kind |-> "Indirect", arg |-> sig]

\* the closure `call`: an edge caller -> callee unless one was seen
CallAlways(st, caller, callee) ==
  [st EXCEPT !.g = add_edge(st.g, caller, callee), !.seen = @ \cup {callee}]
Call(st, caller, callee) ==
  IF callee \in st.seen THEN st
  ELSE [st EXCEPT !.g = add_edge(st.g, caller, callee),
                  !.seen = @ \cup {callee}]

CallFirstExisting(st, caller, names) ==
  IF Has(st.indices, names[1]) THEN Call(st, caller, st.indices[names[1]])
  ELSE st
RECURSIVE CallExisting(_, _, _)
\* if let Some(callee) = indices.get(name) { call(*callee) }, name by name
CallExisting(st, caller, names) ==
  IF names = <<>> THEN st
  ELSE CallExisting(
         IF Has(st.indices, Head(names))
         THEN Call(st, caller, st.indices[Head(names)])
         ELSE st,
         caller, Tail(names))

\* Callee::Direct: the intrinsic policy, then the callee by canonical name
DirectCallee(st, caller, func) ==
  IF func \in NoOpIntrinsics \cup LifetimeIntrinsics THEN st
  ELSE IF is_thumb /\ StartsWithLlvm(func) THEN st
  ELSE IF func \in MemcpyIntrinsics THEN CallExisting(st, caller, MemcpyTargets)
  ELSE IF func \in MemsetIntrinsics THEN CallExisting(st, caller, MemsetTargets)
  ELSE IF func \in LoweredIntrinsics
  THEN [st EXCEPT !.llvm_seen = @ \cup {func}]
  ELSE IF func = NoAliasIntrinsic THEN st
  ELSE IF StartsWithLlvm(func) THEN [st EXCEPT !.fatal = TRUE]
  ELSE IF func \in SYMBOLLESS_INTRINSICS /\ ~Has(st.indices, func) THEN st
  ELSE IF Has(aliases, func)
  THEN Call(st, caller, st.indices[aliases[func]])
  ELSE IF func \notin symbols.undefined THEN [st EXCEPT !.fatal = TRUE]
  ELSE IF Has(st.indices, func) THEN Call(st, caller, st.indices[func])
  ELSE Call([st EXCEPT !.g = add_node(st.g, Node(func, NoStack, FALSE)),
                       !.indices = Put(st.indices, func, Len(st.g.nodes) + 1)],
            caller, Len(st.g.nodes) + 1)

\* Callee::Indirect: the record of the signature, when there is one, is
\* marked as called by this caller
IndirectCallee(st, caller, sig) ==
  IF Has(st.indirects, sig)
  THEN [st EXCEPT !.indirects =
          Put(st.indirects, sig,
              [st.indirects[sig] EXCEPT !.called = TRUE,
                                        !.callers = @ \cup {caller}])]
  ELSE st

RECURSIVE Statements(_, _, _)
\* for stmt in &define.callees; a failed assert! ends the run
Statements(st, caller, stmts) ==
  IF stmts = <<>> \/ st.fatal THEN st
  ELSE Statements(
         IF Head(stmts).kind = "Direct"
         THEN DirectCallee(st, caller, Head(stmts).arg)
         ELSE IndirectCallee(st, caller, Head(stmts).arg),
         caller, Tail(stmts))

\* one iteration of `for define in defines.values()` (add edges); a HashMap
\* is visited in no particular order
AddEdges ==
  /\ pc = "edges"
  /\ \E name \in pending :
       /\ pending' = pending \ {name}
       /\ IF ~Has(aliases, name)
          THEN \* this symbol was GC-ed by the linker, skip
               UNCHANGED <<indices, indirects, edges, defined, llvm_seen,
                           diagnostics, g, pc>>
          ELSE LET canonical_name == aliases[name]
                   caller == indices[canonical_name]
                   st == Statements(
                           [g |-> g, indices |-> indices,
                            seen |-> IF Has(edges, caller) THEN edges[caller]
                                     ELSE {},
                            indirects |-> indirects, llvm_seen |-> llvm_seen,
                            fatal |-> FALSE],
                           caller, defines[name].callees)
               IN /\ defined' = defined \cup {canonical_name}
                  /\ g' = st.g
                  /\ indices' = st.indices
                  /\ edges' = Put(edges, caller, st.seen)
                  /\ indirects' = st.indirects
                  /\ llvm_seen' = st.llvm_seen
                  /\ diagnostics' =
                       diagnostics
                       \cup {<<"assuming that it directly lowers to machine code", func>> :
                               func \in st.llvm_seen \ llvm_seen}
                  /\ pc' = IF st.fatal THEN "fatal" ELSE pc
  /\ UNCHANGED <<inputs, ambiguous, symbols, aliases, addr2name,
                 has_untyped_symbols, has_stack_usage_info, todo, cycles>>

\* if has_untyped_symbols { warn!(..) }, ahead of the resolver loop
UntypedWarning ==
  IF has_untyped_symbols
  THEN {<<"the program contains untyped, external symbols", "">>}
  ELSE {}

EndEdges ==
  /\ pc = "edges"
  /\ pending = {}
  /\ pc' = IF is_thumb THEN "thumb" ELSE "indirect"
  /\ pending' = IF ~is_thumb THEN DOMAIN indirects
                ELSE IF has_text THEN DOMAIN symbols.defined
                ELSE {}
  /\ diagnostics' =
       diagnostics
       \cup (IF is_thumb /\ ~has_text THEN {<<".text section not found", "">>}
             ELSE {})
       \cup (IF ~is_thumb THEN UntypedWarning ELSE {})
  /\ UNCHANGED <<inputs, ambiguous, symbols, aliases, addr2name, indices,
                 indirects, has_untyped_symbols, edges, defined, llvm_seen, g,
                 has_stack_usage_info, todo, cycles>>

\* ------------------------------------------- machine-code augmentation
\* the tuple thumb::analyze returns for the bytes of one symbol; bls and bs
\* hold the branch offsets in the order the decoder met them
Facts(bls, bs, indirect, modifies_sp, our_stack) ==
  [bls |-> bls, bs |-> bs, indirect |-> indirect,
   modifies_sp |-> modifies_sp, our_stack |-> our_stack]
Tag(addr, kind) == [addr |-> addr, kind |-> kind]

\* the size of a symbol; a size of zero is looked up in the sorted tags,
\* where binary_search_by may stop at any tag of that address
SizesOf(address, size) ==
  IF size # 0 THEN {size}
  ELSE LET hits == {i \in DOMAIN tags : tags[i].addr = address}
       IN IF hits = {} THEN {0}
          ELSE {IF /\ tags[needle].kind = "Thumb"
                   /\ needle + 1 \in DOMAIN tags
                   /\ tags[needle + 1].kind = "Thumb"
                THEN tags[needle + 1].addr - tags[needle].addr
                ELSE 0 : needle \in hits}

\* the sanity check and the correction of LLVM's number; the result is
\* the node's local usage, or Panic when an assert_eq fails
Panic == [tag |-> "panic", n |-> 0]
CheckedLocal(local, canonical_name, facts) ==
  LET stack == facts.our_stack
  IN IF stack # NoStack /\ ((stack # 0) # facts.modifies_sp) THEN Panic
     ELSE IF local.tag = "Exact"
     THEN LET llvm_stack ==
                IF stack = NoStack THEN local.n
                ELSE IF is_outlined_function(canonical_name)
                THEN (IF local.n = 0 /\ stack # local.n THEN stack ELSE local.n)
                ELSE stack
          IN IF (llvm_stack # 0) # facts.modifies_sp THEN Panic
             ELSE LocalExact(llvm_stack)
     ELSE IF stack # NoStack THEN LocalExact(stack)
     ELSE IF ~facts.modifies_sp THEN LocalExact(0)
     ELSE local

\* the warn! lines of the same step
LocalWarnings(local, canonical_name, facts) ==
  LET stack == facts.our_stack
      checked == CheckedLocal(local, canonical_name, facts)
  IN (IF local.tag = "Exact" /\ stack # NoStack /\ stack # local.n
      THEN IF is_outlined_function(canonical_name)
           THEN IF local.n = 0
                THEN {<<"overriding LLVM's result (function was produced by LLVM's function outlining pass)",
                        canonical_name>>}
                ELSE {}
           ELSE {<<"BUG: overriding LLVM's result (this should match, it's probably a bug)",
                   canonical_name>>}
      ELSE {})
     \cup (IF checked = LocalUnknown
           THEN {<<"no stack usage information", canonical_name>>}
           ELSE {})

RECURSIVE BranchesAllCalls(_, _, _, _, _, _)
BranchesAllCalls(st, caller, address, size, offsets, plain) ==
  IF offsets = <<>> \/ st.fatal THEN st
  ELSE LET addr == address + Head(offsets)
           rest == Tail(offsets)
       IN IF ~Has(addr2name, addr) \/ ~Has(indices, addr2name[addr])
          THEN [st EXCEPT !.fatal = TRUE]
          ELSE LET callee == indices[addr2name[addr]]
               IN IF callee \in st.seen
                  THEN BranchesAllCalls(st, caller, address, size, rest, plain)
                  ELSE BranchesAllCalls([st EXCEPT !.g = add_edge(@, caller, callee),
                                                   !.seen = @ \cup {callee}],
                                        caller, address, size, rest, plain)

RECURSIVE Branches(_, _, _, _, _, _)
\* for offset in bls / bs: an edge to the symbol at address + offset unless
\* the caller already has one; st is [g, seen, fatal]
Branches(st, caller, address, size, offsets, plain) ==
  IF offsets = <<>> \/ st.fatal THEN st
  ELSE LET addr == address + Head(offsets)
           rest == Tail(offsets)
       IN IF plain /\ addr >= address /\ addr < address + size
          THEN Branches(st, caller, address, size, rest, plain)
          ELSE IF ~Has(addr2name, addr) \/ ~Has(indices, addr2name[addr])
          THEN [st EXCEPT !.fatal = TRUE]
          ELSE LET callee == indices[addr2name[addr]]
               IN IF callee \in st.seen
                  THEN Branches(st, caller, address, size, rest, plain)
                  ELSE Branches([st EXCEPT !.g = add_edge(@, caller, callee),
                                           !.seen = @ \cup {callee}],
                                caller, address, size, rest, plain)

\* `!defined.contains(canonical_name) && indirect`
NoTypeInformationWithoutDefined(canonical_name, facts) == facts.indirect
NoTypeInformation(canonical_name, facts) ==
  canonical_name \notin defined /\ facts.indirect

\* one iteration of `for (address, sym) in &symbols.defined` over .text
AnalyzeSymbol ==
  /\ pc = "thumb"
  /\ pending # {}
  /\ LET address == LeastOf(pending)
         sym == symbols.defined[address]
     IN IF ~Has(aliases, sym.names[1]) \/ ~Has(analyze, address)
        THEN /\ pc' = "fatal"
             /\ UNCHANGED <<g, edges, diagnostics, pending>>
        ELSE \E size \in SizesOf(address, sym.size) :
          LET canonical_name == aliases[sym.names[1]]
              facts == analyze[address]
              caller == indices[canonical_name]
              local == CheckedLocal(g.nodes[caller].local, canonical_name, facts)
          IN IF local = Panic
             THEN /\ pc' = "fatal"
                  /\ UNCHANGED <<g, edges, diagnostics, pending>>
             ELSE LET g1 == [g EXCEPT !.nodes[caller].local = local]
                      untyped == NoTypeInformation(canonical_name, facts)
                      g2 == IF untyped
                            THEN add_edge(add_node(g1, Node("?", NoStack, FALSE)),
                                          caller, Len(g1.nodes) + 1)
                            ELSE g1
                      st0 == [g |-> g2,
                              seen |-> IF Has(edges, caller) THEN edges[caller]
                                       ELSE {},
                              fatal |-> FALSE]
                      st1 == Branches(st0, caller, address, size, facts.bls, FALSE)
                      st2 == Branches(st1, caller, address, size, facts.bs, TRUE)
                  IN /\ g' = st2.g
                     /\ edges' = Put(edges, caller, st2.seen)
                     /\ diagnostics' =
                          diagnostics
                          \cup LocalWarnings(g.nodes[caller].local,
                                             canonical_name, facts)
                          \cup (IF untyped
                                THEN {<<"performs an indirect function call and there's no type information about the operation",
                                        canonical_name>>}
                                ELSE {})
                     /\ pending' = pending \ {address}
                     /\ pc' = IF st2.fatal THEN "fatal" ELSE pc
  /\ UNCHANGED <<inputs, ambiguous, symbols, aliases, addr2name, indices, indirects,
                 has_untyped_symbols, defined, llvm_seen,
                 has_stack_usage_info, todo, cycles>>

EndAnalysis ==
  /\ pc = "thumb"
  /\ pending = {}
  /\ pc' = "indirect"
  /\ pending' = DOMAIN indirects
  /\ diagnostics' = diagnostics \cup UntypedWarning
  /\ UNCHANGED <<inputs, ambiguous, symbols, aliases, addr2name, indices, indirects,
                 has_untyped_symbols, edges, defined, llvm_seen, g,
                 has_stack_usage_info, todo, cycles>>

\* ------------------------------------------------- indirect-call resolver
RECURSIVE EdgesFromAll(_, _, _)
EdgesFromAll(gr, callers, callee) ==
  IF callers = <<>> THEN gr
  ELSE EdgesFromAll(add_edge(gr, Head(callers), callee), Tail(callers), callee)

RECURSIVE EdgesToAll(_, _, _)
EdgesToAll(gr, caller, callees) ==
  IF callees = <<>> THEN gr
  ELSE EdgesToAll(add_edge(gr, caller, Head(callees)), caller, Tail(callees))

\* the function-pointer node of a signature: its name with '*' appended
PointerName(sig) ==
  CASE sig = "S" -> "S*"
    [] sig = "T" -> "T*"

\* the body of `for (sig, indirect) in indirects` for a called signature
ResolveWithoutSentinel(gr, sig, indirect) ==
  LET call == Len(gr.nodes) + 1
      g1 == add_node(gr, Node(PointerName(sig), 0, TRUE))
      g2 == EdgesFromAll(g1, SetToSeq(indirect.callers), call)
  IN EdgesToAll(g2, call, SetToSeq(indirect.callees))
Resolve(gr, sig, indirect) ==
  LET call == Len(gr.nodes) + 1
      g1 == add_node(gr, Node(PointerName(sig), 0, TRUE))
      g2 == EdgesFromAll(g1, SetToSeq(indirect.callers), call)
      g3 == IF has_untyped_symbols
            THEN add_edge(add_node(g2, Node("?", NoStack, FALSE)), call, call + 1)
            ELSE g2
  IN EdgesToAll(g3, call, SetToSeq(indirect.callees))

\* one iteration of `for (mut sig, indirect) in indirects`; a HashMap is
\* visited in no particular order
ResolveIndirect ==
  /\ pc = "indirect"
  /\ \E sig \in pending :
       /\ pending' = pending \ {sig}
       /\ g' = IF indirects[sig].called THEN Resolve(g, sig, indirects[sig])
               ELSE g
       /\ diagnostics' =
            IF /\ indirects[sig].called
               /\ ~has_untyped_symbols
               /\ indirects[sig].callees = {}
            THEN diagnostics \cup {<<"BUG? no callees", PointerName(sig)>>}
            ELSE diagnostics
  /\ UNCHANGED <<inputs, ambiguous, symbols, aliases, addr2name, indices, indirects,
                 has_untyped_symbols, edges, defined, llvm_seen,
                 has_stack_usage_info, todo, cycles, pc>>

EndIndirects ==
  /\ pc = "indirect"
  /\ pending = {}
  /\ pc' = "filter"
  /\ UNCHANGED <<inputs, tables, diagnostics, g, has_stack_usage_info, todo, cycles>>

\* ---------------------------------------------------------------- filter
\* g.neighbors(u): the callees of u, the edge added last first
RECURSIVE Reverse(_)
Reverse(s) == IF s = <<>> THEN <<>> ELSE Reverse(Tail(s)) \o <<Head(s)>>
neighbors(gr, u) ==
  LET out == OutEdges(gr, u) IN Reverse([i \in DOMAIN out |-> out[i][2]])

\* one2two.get(&n1), else a clone of the node added to g2; st is
\* [g2, one2two]
Copied(gr, st, n1) ==
  IF Has(st.one2two, n1) THEN st
  ELSE [g2 |-> add_node(st.g2, gr.nodes[n1]),
        one2two |-> Put(st.one2two, n1, Len(st.g2.nodes) + 1)]

RECURSIVE CopyCalleesWithoutEdges(_, _, _, _)
CopyCalleesWithoutEdges(gr, st, caller1, callees) ==
  IF callees = <<>> THEN st
  ELSE CopyCalleesWithoutEdges(gr, Copied(gr, st, Head(callees)), caller1,
                               Tail(callees))

RECURSIVE CopyCallees(_, _, _, _)
\* while let Some((_, callee1)) = callees.next(&g)
CopyCallees(gr, st, caller1, callees) ==
  IF callees = <<>> THEN st
  ELSE LET st1 == Copied(gr, st, Head(callees))
       IN CopyCallees(gr,
                      [st1 EXCEPT !.g2 = add_edge(@, st1.one2two[caller1],
                                                  st1.one2two[Head(callees)])],
                      caller1, Tail(callees))

UnvisitedNone(s, discovered) == <<>>
RECURSIVE Unvisited(_, _)
Unvisited(s, discovered) ==
  IF s = <<>> THEN <<>>
  ELSE (IF Head(s) \in discovered THEN <<>> ELSE <<Head(s)>>)
       \o Unvisited(Tail(s), discovered)

RECURSIVE Reachable(_, _, _, _)
\* while let Some(caller1) = dfs.next(&g): Dfs keeps a stack (its top is
\* the last item) and the set of the nodes it has discovered
Reachable(gr, stack, discovered, st) ==
  IF stack = <<>> THEN st.g2
  ELSE LET caller1 == stack[Len(stack)]
           rest == SubSeq(stack, 1, Len(stack) - 1)
       IN IF caller1 \in discovered THEN Reachable(gr, rest, discovered, st)
          ELSE LET seen == discovered \cup {caller1}
                   callees == neighbors(gr, caller1)
               IN Reachable(gr, rest \o Unvisited(callees, seen), seen,
                            CopyCallees(gr, Copied(gr, st, caller1), caller1,
                                        callees))

\* the keys of indices whose demangled form starts with start + "::h"
Hits == {key \in DOMAIN indices : StartsWithHashed(key, start)}
\* the node the entry point resolves to; 0 stands for None
StartNode ==
  IF Has(indices, start) THEN indices[start]
  ELSE IF Cardinality(Hits) = 1 THEN indices[CHOOSE key \in Hits : TRUE]
  ELSE 0

\* if let Some(start) = &args.start {..}: no entry point is given
NoFilter ==
  /\ pc = "filter"
  /\ start = "none"
  /\ pc' = "propagate"
  /\ UNCHANGED <<inputs, tables, diagnostics, g, has_stack_usage_info, todo, cycles>>

\* if let Some(start) = &args.start {..}: an entry point is given
Filter ==
  /\ pc = "filter"
  /\ start # "none"
  /\ pc' = "propagate"
  /\ IF StartNode # 0
     THEN /\ g' = Reachable(g, <<StartNode>>, {},
                            [g2 |-> [nodes |-> <<>>, edges |-> <<>>],
                             one2two |-> <<>>])
          /\ indices' = <<>>
          /\ UNCHANGED diagnostics
     ELSE /\ diagnostics' =
               diagnostics
               \cup (IF ~Has(indices, start) /\ Cardinality(Hits) > 1
                     THEN {<<"multiple matches", start>>} ELSE {})
               \cup {<<"start point not found; the graph will not be filtered", "">>}
          /\ UNCHANGED <<g, indices>>
  /\ UNCHANGED <<inputs, symbols, aliases, addr2name, indirects,
                 has_untyped_symbols, edges, defined, llvm_seen, ambiguous,
                 pending, has_stack_usage_info, todo, cycles>>

Build ==
  \/ Start \/ AddRealNode \/ EndNodes \/ AddEdges \/ EndEdges
  \/ AnalyzeSymbol \/ EndAnalysis
  \/ ResolveIndirect \/ EndIndirects \/ NoFilter \/ Filter

\* ------------------------------------------------------------ propagation
\* the cumulative stack usage is only exact when no node uses the stack
PromoteNever(m) == m
Promote(m) == IF m.tag = "Exact" /\ m.n # 0 THEN MaxLowerBound(m.n) ELSE m

IsACycle(gr, scc) ==
  Cardinality(scc) > 1 \/ (\E u \in scc : u \in Succ(gr, u))

\* the bound every member of a true cycle gets
CycleBoundNeighborsOnly(gr, scc) ==
  LET scc_local == Promote(max_of(LocalsOf(gr, SetToSeq(scc))))
      neighbors_max == max_of(MaxesOf(gr, ConcatOut(gr, SetToSeq(scc), scc)))
  IN IF neighbors_max.tag # "None" THEN neighbors_max ELSE scc_local
CycleBound(gr, scc) ==
  LET scc_local == Promote(max_of(LocalsOf(gr, SetToSeq(scc))))
      neighbors_max == max_of(MaxesOf(gr, ConcatOut(gr, SetToSeq(scc), scc)))
  IN IF neighbors_max.tag # "None" THEN AddMax(neighbors_max, scc_local)
     ELSE scc_local

\* the bound of a node outside every cycle
NodeBoundIgnoresCallees(gr, u) == LocalIntoMax(gr.nodes[u].local)
NodeBound(gr, u) ==
  LET neighbors_max == max_of(MaxesOf(gr, OutEdges(gr, u)))
  IN IF neighbors_max.tag # "None" THEN AddLocal(neighbors_max, gr.nodes[u].local)
     ELSE LocalIntoMax(gr.nodes[u].local)

\* if !has_stack_usage_info {..} else if is_cyclic_directed {..} else {..}
SkipsWithoutInfo == ~has_stack_usage_info

RECURSIVE RunSccs(_, _)
\* the whole of `for scc in &sccs`: components in reverse topological order
RunSccs(gr, sccs) ==
  IF sccs = {} THEN gr
  ELSE LET scc == CHOOSE s \in sccs : Ready(gr, s)
       IN RunSccs(IF IsACycle(gr, scc)
                  THEN SetMax(gr, scc, CycleBound(gr, scc))
                  ELSE SetMax(gr, scc, NodeBound(gr, CHOOSE u \in scc : TRUE)),
                  sccs \ {scc})

RECURSIVE RunTopo(_, _)
\* the whole of `while let Some(node) = topo.next(Reversed(&g))`
RunTopo(gr, nodes) ==
  IF nodes = {} THEN gr
  ELSE LET node == CHOOSE u \in nodes : Ready(gr, {u})
       IN RunTopo(SetMax(gr, {node}, NodeBound(gr, node)), nodes \ {node})

\* the graph the propagation phase leaves when it is given gr
Propagation(gr) ==
  IF SkipsWithoutInfo THEN gr
  ELSE IF is_cyclic_directed(gr) THEN RunSccs(gr, Sccs(gr))
  ELSE RunTopo(gr, NodeIds(gr))
BeginPropagation ==
  /\ pc = "propagate"
  /\ IF SkipsWithoutInfo
     THEN pc' = "shorten" /\ todo' = {}
     ELSE IF is_cyclic_directed(g)
          THEN pc' = "scc" /\ todo' = Sccs(g)
          ELSE pc' = "topo" /\ todo' = {{u} : u \in NodeIds(g)}
  /\ diagnostics' =
       IF SkipsWithoutInfo
       THEN diagnostics
            \cup {<<"The graph has zero stack usage information; skipping max stack usage analysis", "">>}
       ELSE diagnostics
  /\ UNCHANGED <<inputs, tables, g, has_stack_usage_info, cycles>>

\* one iteration of `for scc in &sccs` (reverse topological order)
SccStep ==
  /\ pc = "scc"
  /\ \E scc \in todo :
       /\ Ready(g, scc)
       /\ IF IsACycle(g, scc)
          THEN /\ g' = SetMax(g, scc, CycleBound(g, scc))
               /\ cycles' = cycles \cup {scc}
          ELSE /\ g' = SetMax(g, scc, NodeBound(g, CHOOSE u \in scc : TRUE))
               /\ cycles' = cycles
       /\ todo' = todo \ {scc}
  /\ UNCHANGED <<inputs, tables, diagnostics, has_stack_usage_info, pc>>

\* one iteration of `while let Some(node) = topo.next(Reversed(&g))`
TopoStep ==
  /\ pc = "topo"
  /\ \E s \in todo :
       /\ Ready(g, s)
       /\ g' = SetMax(g, s, NodeBound(g, CHOOSE u \in s : TRUE))
       /\ todo' = todo \ {s}
  /\ UNCHANGED <<inputs, tables, diagnostics, has_stack_usage_info, cycles, pc>>

EndPropagation ==
  /\ pc \in {"scc", "topo"}
  /\ todo = {}
  /\ pc' = "shorten"
  /\ UNCHANGED <<inputs, tables, diagnostics, g, has_stack_usage_info, todo, cycles>>

Propagate == BeginPropagation \/ SccStep \/ TopoStep \/ EndPropagation

\* ---------------------------------------------------------- name shortener
\* ambiguous[dehashed] panics when the map has no such key
Unindexed(node) ==
  dehash(demangle(node.name)) # "none"
  /\ ~Has(ambiguous, dehash(demangle(node.name)))
Shortened(node) ==
  LET dehashed == dehash(demangle(node.name))
  IN IF dehashed # "none" /\ ambiguous[dehashed] = 1
     THEN [node EXCEPT !.name = dehashed]
     ELSE node

\* for node in g.node_weights_mut() {..}, then the output and Ok(0)
Shorten ==
  /\ pc = "shorten"
  /\ IF \E i \in NodeIds(g) : Unindexed(g.nodes[i])
     THEN pc' = "fatal" /\ UNCHANGED g
     ELSE /\ pc' = "done"
          /\ g' = [g EXCEPT !.nodes = [i \in NodeIds(g) |-> Shortened(g.nodes[i])]]
  /\ UNCHANGED <<inputs, tables, diagnostics, has_stack_usage_info, todo, cycles>>

\* --------------------------------------------- propagation on given graphs
GraphOf(locals, es) ==
  [nodes |-> [i \in 1..Len(locals) |->
               [name |-> ToString(i), local |-> locals[i], max |-> NoMax,
                dashed |-> FALSE]],
   edges |-> es]

LocalChoices == {LocalUnknown, LocalExact(0), LocalExact(4)}

\* the propagation scenarios of the specification (section 8, 1 to 5)
ChainGraph ==
  GraphOf(<<LocalExact(8), LocalExact(16), LocalExact(4)>>, <<<<1, 2>>, <<2, 3>>>>)
BranchGraph ==
  GraphOf(<<LocalExact(8), LocalExact(16), LocalExact(32)>>, <<<<1, 2>>, <<1, 3>>>>)
UnknownLeafGraph == GraphOf(<<LocalExact(8), LocalUnknown>>, <<<<1, 2>>>>)
RecursivePairGraph ==
  GraphOf(<<LocalExact(8), LocalExact(16)>>, <<<<1, 2>>, <<2, 1>>>>)
ZeroCycleGraph == GraphOf(<<LocalExact(0), LocalExact(0)>>, <<<<1, 2>>, <<2, 1>>>>)
ScenarioGraphs ==
  {ChainGraph, BranchGraph, UnknownLeafGraph, RecursivePairGraph, ZeroCycleGraph}

RECURSIVE EdgesOfCodes(_)
\* edge number k of an n-node graph is <<k \div n + 1, k % n + 1>>
EdgesOfCodes(ks) ==
  IF ks = <<>> THEN <<>>
  ELSE <<<<(Head(ks) \div NumNodes) + 1, (Head(ks) % NumNodes) + 1>>>>
       \o EdgesOfCodes(Tail(ks))


InitGraph ==
  /\ \/ \E ks \in {s \in SUBSET (0..(NumNodes * NumNodes - 1)) :
                     Cardinality(s) <= MaxEdges} :
        \E locals \in [1..NumNodes -> LocalChoices] :
          g = GraphOf(locals, EdgesOfCodes(SetToSeq(ks)))
     \/ g \in ScenarioGraphs
  /\ has_stack_usage_info \in BOOLEAN
  /\ is_thumb = FALSE
  /\ elf_symbols = <<>>
  /\ defines = <<>>
  /\ declares = <<>>
  /\ tags = <<>>
  /\ has_text = FALSE
  /\ analyze = <<>>
  /\ start = "none"
  /\ ambiguous = <<>>
  /\ diagnostics = {}
  /\ symbols = [defined |-> <<>>, undefined |-> {}]
  /\ aliases = <<>>
  /\ addr2name = <<>>
  /\ indices = <<>>
  /\ indirects = <<>>
  /\ has_untyped_symbols = FALSE
  /\ edges = <<>>
  /\ defined = {}
  /\ llvm_seen = {}
  /\ pending = {}
  /\ todo = {}
  /\ cycles = {}
  /\ pc = "propagate"

SpecProp == InitGraph /\ [][Propagate]_vars

\* ------------------------------------------------------ the whole pipeline
Symbol(names, stack, size) == [names |-> names, stack |-> stack, size |-> size]
Define(sig, callees) == [sig |-> sig, callees |-> callees]
EmptyGraph == [nodes |-> <<>>, edges |-> <<>>]

\* the state of run() once the executable and the IR are read
InitRun(thumb, syms, undef, defs, decls) ==
  /\ is_thumb = thumb
  /\ elf_symbols = syms
  /\ defines = defs
  /\ declares = decls
  /\ symbols = [defined |-> syms, undefined |-> undef]
  /\ aliases = <<>>
  /\ addr2name = <<>>
  /\ indices = <<>>
  /\ indirects = <<>>
  /\ has_untyped_symbols = FALSE
  /\ edges = <<>>
  /\ defined = {}
  /\ llvm_seen = {}
  /\ ambiguous = <<>>
  /\ diagnostics = {}
  /\ pending = {}
  /\ g = EmptyGraph
  /\ has_stack_usage_info = FALSE
  /\ todo = {}
  /\ cycles = {}
  /\ pc = "start"

\* a target without a decoder reads no machine code
NoMachineCode ==
  /\ tags = <<>>
  /\ has_text = FALSE
  /\ analyze = <<>>

\* symbol tables with aliases, tags, repeated names and neighbouring
\* addresses; the IR defines f and declares g
AliasNames ==
  {<<"f">>, <<"g">>, <<"$a">>, <<"f", "g">>, <<"g", "f">>, <<"f", "$a">>,
   <<"$a", "f">>, <<"g", "$a">>, <<"$a", "g">>}
AliasAddresses == {2, 3, 4}
AliasTables ==
  UNION {[A -> {Symbol(ns, 4, 2) : ns \in AliasNames}] :
           A \in SUBSET AliasAddresses}
AliasFacts == [a \in AliasAddresses |-> Facts(<<>>, <<>>, FALSE, TRUE, 4)]
InitAliases ==
  \E thumb \in BOOLEAN : \E syms \in AliasTables :
    /\ InitRun(thumb, syms, {}, "f" :> Define("S", <<>>), "g" :> "T")
    /\ start = "none"
    /\ \/ is_thumb = FALSE /\ NoMachineCode
       \/ is_thumb = TRUE /\ tags = <<>> /\ has_text \in BOOLEAN
          /\ analyze = AliasFacts

\* f, g and a caller h: f and g separate, aliases of one address or absent
\* from the executable; each defined or declared with signature S or T, or
\* unknown to the IR; h calls through a pointer
CalleeTables ==
  {<<>>,
   2 :> Symbol(<<"f">>, 4, 2),
   4 :> Symbol(<<"g">>, 12, 2),
   (2 :> Symbol(<<"f">>, 4, 2)) @@ (4 :> Symbol(<<"g">>, 12, 2)),
   (2 :> Symbol(<<"f">>, 4, 2)) @@ (4 :> Symbol(<<"g">>, NoStack, 2)),
   4 :> Symbol(<<"g">>, NoStack, 2),
   2 :> Symbol(<<"f", "g">>, 4, 2)}
CallerSymbols == {6 :> Symbol(<<"h">>, 2, 2), 6 :> Symbol(<<"h">>, NoStack, 2)}
Sigs == {"S", "T"}
CalleeKinds ==
  {[defs |-> <<>>, decls |-> <<>>]}
  \cup {[defs |-> <<>>, decls |-> n :> s] : n \in {"f", "g"}, s \in Sigs}
  \cup {[defs |-> n :> Define(s, <<>>), decls |-> <<>>] :
          n \in {"f", "g"}, s \in Sigs}
  \cup {[defs |-> ("f" :> Define(s, <<>>)) @@ ("g" :> Define(t, <<>>)),
         decls |-> <<>>] : s \in Sigs, t \in Sigs}
  \cup {[defs |-> "f" :> Define(s, <<>>), decls |-> "g" :> t] :
          s \in Sigs, t \in Sigs}
  \cup {[defs |-> "g" :> Define(s, <<Indirect(t)>>), decls |-> "f" :> t] :
          s \in Sigs, t \in Sigs}
  \cup {[defs |-> "g" :> Define(s, <<Indirect(s)>>), decls |-> <<>>] : s \in Sigs}
  \cup {[defs |-> ("f" :> Define("S", <<Direct("h")>>))
                  @@ ("g" :> Define("S", <<Direct("h"), Direct("f")>>)),
         decls |-> <<>>]}
CallerBodies ==
  {<<Indirect("S")>>, <<Indirect("T")>>, <<Direct("f"), Indirect("S")>>,
   <<Direct("ext"), Indirect("S")>>, <<Direct("g"), Direct("g")>>}
\* what the decoder finds in f, g and h: the frames LLVM reports, perhaps
\* an indirect call in g, perhaps a BL from h to address 2
CalleeFacts ==
  {(2 :> Facts(<<>>, <<>>, FALSE, TRUE, 4))
   @@ (4 :> Facts(<<>>, <<>>, ind, TRUE, 12))
   @@ (6 :> Facts(bls, <<>>, TRUE, TRUE, 2)) :
     ind \in BOOLEAN, bls \in {<<>>, <<-4>>}}
InitIndirects ==
  \E callees \in CalleeTables : \E caller \in CallerSymbols :
  \E thumb \in BOOLEAN :
  \E ir \in CalleeKinds : \E sig \in Sigs : \E body \in CallerBodies :
    /\ InitRun(thumb, callees @@ caller,
               {"ext@@V1"} \cup ({"g"} \ UNION {Range(callees[a].names) : a \in DOMAIN callees}),
               ir.defs @@ ("h" :> Define(sig, body)), ir.decls)
    /\ start = "none"
    /\ \/ is_thumb = FALSE /\ NoMachineCode
       \/ is_thumb = TRUE /\ tags = <<>> /\ has_text = TRUE
          /\ analyze \in CalleeFacts

\* a decoder target with m at 2 and n at 8; the decoder's view of m, the
\* size of m and the frame LLVM reports for it vary; when m may be handed
\* to the decoder as an empty slice of .text, the decoder finds no branch,
\* no indirect call and no change of SP in it
MachineTags ==
  {<<>>, <<Tag(2, "Thumb"), Tag(6, "Thumb")>>,
   <<Tag(2, "Thumb"), Tag(6, "Data")>>,
   <<Tag(2, "Thumb"), Tag(4, "Data"), Tag(6, "Thumb")>>,
   <<Tag(2, "Data"), Tag(2, "Thumb"), Tag(6, "Thumb")>>}
MachineBranches == {<<>>, <<0>>, <<2>>, <<6>>, <<2, 6>>}
MachineStacks == {NoStack, 0, 8}
MachineFrames == {NoStack, 0, 8, 40}
InitMachine ==
  \E stack \in MachineStacks : \E size \in {0, 4} :
  \E defs \in {<<>>, "m" :> Define("S", <<>>)} :
  \E bls \in {<<>>, <<6>>, <<2>>} : \E bs \in MachineBranches :
  \E indirect \in BOOLEAN : \E modifies_sp \in BOOLEAN :
  \E our_stack \in MachineFrames :
    /\ InitRun(TRUE, (2 :> Symbol(<<"m">>, stack, size))
                     @@ (8 :> Symbol(<<"n">>, 0, 2)),
               {}, defs, "n" :> "S")
    /\ start = "none"
    /\ tags \in MachineTags
    /\ 0 \in SizesOf(2, size) =>
         /\ bls = <<>> /\ bs = <<>>
         /\ ~indirect /\ ~modifies_sp
         /\ our_stack \in {NoStack, 0}
    /\ has_text = TRUE
    /\ analyze = (2 :> Facts(bls, bs, indirect, modifies_sp, our_stack))
                 @@ (8 :> Facts(<<>>, <<>>, FALSE, FALSE, 0))

\* f at address 2 calls intrinsics and library routines; memcpy,
\* __aeabi_memcpy, __aeabi_memcpy4 and memclr are linked in or not; on a
\* decoder target f holds BL instructions to addresses 4 and 6 or none
LibraryAddresses ==
  ("memcpy" :> 4) @@ ("__aeabi_memcpy" :> 6) @@ ("__aeabi_memcpy4" :> 8)
  @@ ("memclr" :> 10)
LibraryTables ==
  {[a \in {LibraryAddresses[n] : n \in L} |->
      Symbol(<<CHOOSE n \in L : LibraryAddresses[n] = a>>, 0, 2)] :
     L \in SUBSET DOMAIN LibraryAddresses}
IntrinsicBodies ==
  {<<Direct("llvm.memcpy.p0i8.p0i8.i32")>>,
   <<Direct("memcpy"), Direct("llvm.memcpy.p0i8.p0i8.i32")>>,
   <<Direct("llvm.memcpy.p0i8.p0i8.i32"), Direct("memcpy"),
     Direct("llvm.memcpy.p0i8.p0i8.i32")>>,
   <<Direct("llvm.memset.p0i8.i32"), Direct("llvm.memmove.p0i8.p0i8.i32")>>,
   <<Direct("llvm.dbg.value"), Direct("llvm.lifetime.start.p0i8"),
     Direct("llvm.experimental.noalias.scope.decl")>>,
   <<Direct("llvm.umax.i32"), Direct("llvm.x86.sse2.pause"),
     Direct("llvm.umax.i32")>>,
   <<Direct("llvm.fabs.f32")>>,
   <<Direct("memcmp"), Direct("memclr")>>}
InitIntrinsics ==
  \E thumb \in BOOLEAN : \E library \in LibraryTables :
  \E body \in IntrinsicBodies :
    /\ InitRun(thumb, (2 :> Symbol(<<"f">>, 4, 2)) @@ library,
               {"memclr", "memcmp"} \ {library[a].names[1] : a \in DOMAIN library},
               "f" :> Define("S", body),
               [n \in DOMAIN LibraryAddresses |-> "T"])
    /\ start = "none"
    /\ \/ is_thumb = FALSE /\ NoMachineCode
       \/ /\ is_thumb = TRUE
          /\ tags = <<>>
          /\ has_text = TRUE
          /\ \E bls \in {<<>>, <<2>>, <<2, 4, 2>>} :
               analyze = [a \in {2} \cup DOMAIN library |->
                            IF a = 2 THEN Facts(bls, <<>>, FALSE, TRUE, 4)
                            ELSE Facts(<<>>, <<>>, FALSE, FALSE, 0)]

\* a decoder target where f at 8 calls the helper OUTLINED_FUNCTION_7 at 2,
\* which the IR does not know, and perhaps calls through a pointer
OutlinedStacks == {0, 8}
OutlinedFrames == {NoStack, 0, 8, 24}
InitOutlined ==
  \E stack \in OutlinedStacks : \E our_stack \in OutlinedFrames :
  \E modifies_sp \in BOOLEAN : \E indirect \in BOOLEAN :
  \E body \in {<<>>, <<Indirect("S")>>} :
    /\ InitRun(TRUE, (2 :> Symbol(<<"OUTLINED_FUNCTION_7">>, stack, 4))
                     @@ (8 :> Symbol(<<"f">>, 4, 4)),
               {}, "f" :> Define("S", body), <<>>)
    /\ start = "none"
    /\ tags = <<>>
    /\ has_text = TRUE
    /\ analyze = (2 :> Facts(<<>>, <<>>, indirect, modifies_sp, our_stack))
                 @@ (8 :> Facts(<<-6>>, <<>>, body # <<>>, TRUE, 4))

\* main at 2, a hashed foo at 4 and, at 6, another hashed foo, a hashed bar
\* or a plain foo; they call each other, a pointer or an undefined symbol,
\* and the user may ask for an entry point
FooOne == "_ZN3foo17h1111111111111111E"
FooTwo == "_ZN3foo17h2222222222222222E"
Bar == "_ZN3bar17h3333333333333333E"
EntryPoints == {"none", "main", "foo", "bar", FooOne, "nothere"}
InitFilter ==
  \E third \in {FooTwo, Bar, "foo"} :
  \E main \in {<<>>, <<Direct(FooOne)>>, <<Direct(FooOne), Direct(third)>>,
                <<Indirect("S")>>} :
  \E first \in {<<>>, <<Direct(third)>>, <<Direct("main")>>,
                 <<Direct(third), Direct(FooOne)>>} :
  \E last \in {<<>>, <<Direct(FooOne)>>, <<Direct("ext")>>, <<Direct(Bar)>>} :
    /\ InitRun(FALSE, (2 :> Symbol(<<"main">>, 8, 2))
                      @@ (4 :> Symbol(<<FooOne>>, 4, 2))
                      @@ (6 :> Symbol(<<third>>, 12, 2)),
               {"ext", Bar} \ {third},
               ("main" :> Define("T", main)) @@ (FooOne :> Define("S", first))
               @@ (third :> Define("S", last)),
               <<>>)
    /\ start \in EntryPoints
    /\ NoMachineCode

Init ==
  \/ InitAliases \/ InitIndirects \/ InitMachine \/ InitIntrinsics
  \/ InitOutlined \/ InitFilter
Next == Build \/ Propagate \/ Shorten
Spec == Init /\ [][Next]_vars

\* ------------------------------------------------- claims on propagation
AfterPropagation == pc = "shorten"
Propagated == AfterPropagation /\ has_stack_usage_info
Bound(u) == g.nodes[u].max
LocalOf(u) == g.nodes[u].local
BoundSet(u) == Bound(u).tag \in {"Exact", "LowerBound"}
SetMaximum(S) == CHOOSE x \in S : \A y \in S : x >= y

\* a true cycle: a strongly connected component of several nodes, or one
\* node with an edge to itself
ReachMap ==
  LET adj == Adjacency(g) IN [u \in NodeIds(g) |-> Closure(adj, {u})]
OnTrueCycle(R, u) == \E v \in Succ(g, u) : u \in R[v]
CycleOf(R, u) == {v \in R[u] : u \in R[v]}
External(S) == UNION {Succ(g, u) : u \in S} \ S

LosesExactness(R, n) ==
  \/ LocalOf(n).tag = "Unknown"
  \/ Bound(n).tag = "LowerBound"
  \/ OnTrueCycle(R, n) /\ (\E m \in CycleOf(R, n) : LocalOf(m).n # 0)

\* C1: a node from which a node with Unknown local usage, a node with a
\* LowerBound bound or a true cycle with nonzero local usage can be reached
\* never has an Exact bound, and has a LowerBound bound whenever propagation
\* ran.
C1_ExactIsSound ==
  AfterPropagation =>
    LET R == ReachMap
    IN \A r \in NodeIds(g) :
         (\E n \in R[r] : LosesExactness(R, n)) =>
           /\ Bound(r).tag # "Exact"
           /\ has_stack_usage_info => Bound(r).tag = "LowerBound"

C1_Witness ==
  /\ Propagated
  /\ \E r \in NodeIds(g) : \E n \in ReachPlus(g, r) :
       /\ n \notin CycleOf(ReachMap, r)
       /\ OnTrueCycle(ReachMap, n) /\ ~OnTrueCycle(ReachMap, r)
       /\ \A m \in ReachFrom(g, {r}) : LocalOf(m).tag = "Exact"
       /\ LocalOf(n).n # 0
       /\ Bound(r).tag = "LowerBound"

\* C2 as stated: in every run that reaches the output stage every node has
\* its bound set.
C2_EveryBoundSet ==
  AfterPropagation => \A u \in NodeIds(g) : BoundSet(u)

\* C2 amended: when some defined symbol has a compiler-reported stack size
\* (has_stack_usage_info), every node has its bound set after propagation,
\* whether the graph is cyclic or not and whatever the local usages are.
C2_EveryBoundSetWithInfo ==
  Propagated => \A u \in NodeIds(g) : BoundSet(u)

C2_Witness ==
  /\ Propagated
  /\ is_cyclic_directed(g)
  /\ \E u \in NodeIds(g) : LocalOf(u).tag = "Unknown"
  /\ \E u \in NodeIds(g) : ~OnTrueCycle(ReachMap, u)
  /\ \A u \in NodeIds(g) : BoundSet(u)

RECURSIVE PathSums(_)
\* the sums of local usages along the call paths that start at u (acyclic
\* graphs only)
PathSums(u) ==
  {LocalOf(u).n} \cup
  {LocalOf(u).n + s : s \in UNION {PathSums(v) : v \in Succ(g, u)}}

BoundsAre(gr, ms) ==
  /\ Len(g.nodes) = Len(gr.nodes)
  /\ g.edges = gr.edges
  /\ \A i \in NodeIds(g) : LocalOf(i) = gr.nodes[i].local
  => \A i \in NodeIds(g) : Bound(i) = ms[i]

\* C3: in an acyclic graph the value of bound(n) is the maximum over the
\* call paths from n of the summed local usages, the bound is the local
\* usage plus the largest callee bound (the local usage alone for a leaf),
\* and the chain, branch and unknown-leaf scenarios give the stated bounds.
C3_AcyclicBoundIsPathMaximum ==
  (Propagated /\ ~is_cyclic_directed(g)) =>
    /\ \A n \in NodeIds(g) :
         /\ Bound(n).n = SetMaximum(PathSums(n))
         /\ Bound(n).n =
              LocalOf(n).n +
              (IF Succ(g, n) = {} THEN 0
               ELSE SetMaximum({Bound(v).n : v \in Succ(g, n)}))
         /\ Bound(n).tag = "Exact" <=>
              \A m \in ReachFrom(g, {n}) : LocalOf(m).tag = "Exact"
    /\ BoundsAre(ChainGraph, <<MaxExact(28), MaxExact(20), MaxExact(4)>>)
    /\ BoundsAre(BranchGraph, <<MaxExact(40), MaxExact(16), MaxExact(32)>>)
    /\ BoundsAre(UnknownLeafGraph, <<MaxLowerBound(8), MaxLowerBound(0)>>)

C3_Witness ==
  /\ Propagated
  /\ g.edges = ChainGraph.edges
  /\ Len(g.nodes) = 3
  /\ <<Bound(1), Bound(2), Bound(3)>> = <<MaxExact(28), MaxExact(20), MaxExact(4)>>

\* C4: every member of a true cycle has the same bound: E + L when an edge
\* leaves the component and L otherwise, L the largest local usage of the
\* members (LowerBound unless every member is Exact(0)) and E the largest
\* bound reached by an edge leaving the component; a single node without a
\* self-loop follows the acyclic rule.
C4_CycleMembersShareBound ==
  Propagated =>
    /\ LET R == ReachMap
       IN \A u \in NodeIds(g) :
         LET S == CycleOf(R, u)
             L == SetMaximum({LocalOf(m).n : m \in S})
             E == IF External(S) = {} THEN 0
                  ELSE SetMaximum({Bound(v).n : v \in External(S)})
         IN IF IsACycle(g, S)
            THEN /\ \A m \in S : Bound(m) = Bound(u)
                 /\ Bound(u).n = E + L
                 /\ Bound(u).tag = "Exact" <=>
                      /\ \A m \in S : LocalOf(m) = LocalExact(0)
                      /\ \A v \in External(S) : Bound(v).tag = "Exact"
            ELSE /\ Bound(u).n = E + LocalOf(u).n
                 /\ Bound(u).tag = "Exact" <=>
                      /\ LocalOf(u).tag = "Exact"
                      /\ \A v \in Succ(g, u) : Bound(v).tag = "Exact"
    /\ BoundsAre(RecursivePairGraph, <<MaxLowerBound(16), MaxLowerBound(16)>>)
    /\ BoundsAre(ZeroCycleGraph, <<MaxExact(0), MaxExact(0)>>)

C4_Witness ==
  /\ Propagated
  /\ \E u \in NodeIds(g) :
       LET S == CycleOf(ReachMap, u)
       IN /\ Cardinality(S) > 1
          /\ External(S) # {}
          /\ \E v \in External(S) : Bound(v).n > 0
          /\ \E m \in S : LocalOf(m).n # LocalOf(u).n
          /\ \A m \in S : Bound(m) = Bound(u)

\* an edge of an acyclic region: its caller lies on no true cycle
AcyclicEdges ==
  LET R == ReachMap
  IN {e \in {g.edges[i] : i \in 1..Len(g.edges)} : ~OnTrueCycle(R, e[1])}
Maximizes(u, v) == \A w \in Succ(g, u) : Bound(w).n <= Bound(v).n
UniquelyMaximizes(u, v) == \A w \in Succ(g, u) \ {v} : Bound(w).n < Bound(v).n

\* C5 as stated: for an edge u -> v of an acyclic region the bound of u is
\* at least local(u) + bound(v), with equality exactly when v is the unique
\* callee of u with the largest bound.
C5_EqualityIffUniqueMaximizer ==
  Propagated =>
    \A e \in AcyclicEdges :
      /\ Bound(e[1]).n >= LocalOf(e[1]).n + Bound(e[2]).n
      /\ Bound(e[1]).n = LocalOf(e[1]).n + Bound(e[2]).n
           <=> UniquelyMaximizes(e[1], e[2])

\* C5 amended: for an edge u -> v of an acyclic region the bound of u is at
\* least local(u) + bound(v), with equality exactly when no callee of u has
\* a larger bound than v (several callees may attain the maximum).
C5_EqualityIffMaximizer ==
  Propagated =>
    \A e \in AcyclicEdges :
      /\ Bound(e[1]).n >= LocalOf(e[1]).n + Bound(e[2]).n
      /\ Bound(e[1]).n = LocalOf(e[1]).n + Bound(e[2]).n
           <=> Maximizes(e[1], e[2])

C5_Witness ==
  /\ Propagated
  /\ \E e \in AcyclicEdges : \E w \in Succ(g, e[1]) \ {e[2]} :
       /\ Bound(w).n = Bound(e[2]).n
       /\ Bound(w).n > 0
       /\ Bound(e[1]).n = LocalOf(e[1]).n + Bound(e[2]).n
       /\ Bound(e[1]).n = LocalOf(e[1]).n + Bound(w).n

\* C6: the value of every node's bound is at least the value of its local
\* usage (Unknown counted as 0), on cycles and off them.
C6_BoundAtLeastLocal ==
  Propagated => \A n \in NodeIds(g) : Bound(n).n >= LocalOf(n).n

C6_Witness ==
  /\ Propagated
  /\ \E n \in NodeIds(g) :
       /\ OnTrueCycle(ReachMap, n) /\ LocalOf(n).n > 0
       /\ External(CycleOf(ReachMap, n)) # {}
       /\ Bound(n).n = LocalOf(n).n
  /\ \E n \in NodeIds(g) :
       ~OnTrueCycle(ReachMap, n) /\ Bound(n).n > LocalOf(n).n

\* ------------------------------------------- claims on graph construction
NodesAdded ==
  pc \in {"edges", "thumb", "indirect", "filter", "propagate", "scc", "topo",
          "shorten"}
GraphBuilt == pc \in {"filter", "propagate", "scc", "topo", "shorten"}
\* the node created for the symbol at an address: nodes are added in
\* ascending address order, before any other node
NodeOfAddress(a) == Cardinality({b \in DOMAIN symbols.defined : b <= a})
NamesAt(a) == Range(FilterTags(symbols.defined[a].names))
\* the nodes of the symbols one of whose names the IR defines or declares
\* with signature sig
NodesOfSig(sig) ==
  {NodeOfAddress(a) : a \in
     {b \in DOMAIN symbols.defined :
        \E name \in NamesAt(b) :
          \/ Has(defines, name) /\ defines[name].sig = sig
          \/ Has(declares, name) /\ declares[name] = sig}}
IRSigs ==
  {defines[n].sig : n \in DOMAIN defines} \cup {declares[n] : n \in DOMAIN declares}
\* a live defined function (its name has a symbol) calls through sig
CallsThrough(name, sig) ==
  /\ Has(defines, name)
  /\ Has(aliases, name)
  /\ Indirect(sig) \in Range(defines[name].callees)
PointerNodes(sig) ==
  {i \in NodeIds(g) : g.nodes[i].name = PointerName(sig) /\ g.nodes[i].dashed}
HasEdge(u, v) == <<u, v>> \in Range(g.edges)
BoundsOf(S) == [i \in 1..Cardinality(S) |-> Bound(SetToSeq(S)[i])]

\* C7: when no untyped external symbol exists and a live IR-defined function
\* h contains an indirect call with signature S, the graph holds exactly one
\* synthetic node S* with local usage Exact(0), an edge h -> S* and an edge
\* from S* to every node whose IR signature is S; and when that call is all
\* h calls and h is not reachable from S*, bound(h) is local(h) plus the
\* maximum of the bounds of the functions of signature S.
C7_IndirectDispatch ==
  (AfterPropagation /\ ~has_untyped_symbols) =>
    \A name \in DOMAIN defines : \A sig \in Sigs :
      CallsThrough(name, sig) =>
        LET h == indices[aliases[name]]
            R == ReachMap
        IN /\ Cardinality(PointerNodes(sig)) = 1
           /\ \A call \in PointerNodes(sig) :
                /\ LocalOf(call) = LocalExact(0)
                /\ HasEdge(h, call)
                /\ \A callee \in NodesOfSig(sig) : HasEdge(call, callee)
                /\ (has_stack_usage_info /\ Succ(g, h) = {call} /\ h \notin R[call])
                   => Bound(h) =
                        AddLocal(IF NodesOfSig(sig) = {} THEN MaxExact(0)
                                 ELSE max_of(BoundsOf(NodesOfSig(sig))),
                                 LocalOf(h))

\* C8: in the final unfiltered graph every signature that is both on a
\* declared or defined IR function and at an indirect call site of a live
\* defined function has a synthetic node with at least one outgoing edge,
\* whether or not the IR function carrying it has a symbol in the executable.
C8_CalledSignatureHasPointerNode ==
  GraphBuilt =>
    \A sig \in IRSigs :
      (\E name \in DOMAIN defines : CallsThrough(name, sig)) =>
        \E call \in PointerNodes(sig) : Succ(g, call) # {}

\* C9: every IR-defined function whose name is a name of a defined symbol has
\* the node of that symbol in the callee set of its own signature, whatever
\* the aliases of the symbol are.
C9_DefinedFunctionInCalleeSet ==
  NodesAdded =>
    \A name \in DOMAIN defines : \A a \in DOMAIN symbols.defined :
      name \in NamesAt(a) =>
        /\ Has(indirects, defines[name].sig)
        /\ NodeOfAddress(a) \in indirects[defines[name].sig].callees

\* C10: for every defined symbol of the input symbol table and every non-tag
\* name of it, aliases maps the name to the first non-tag name of that
\* symbol, indices maps that canonical name to the node created for the
\* symbol's address (with the thumb bit cleared on thumb targets), and no two
\* distinct addresses have the same canonical name.
C10_AliasResolution ==
  NodesAdded =>
    /\ \A a \in DOMAIN elf_symbols :
         \A name \in Range(FilterTags(elf_symbols[a].names)) :
           LET canonical_name == FilterTags(elf_symbols[a].names)[1]
               address == IF is_thumb THEN ClearBit(a) ELSE a
           IN /\ Has(aliases, name)
              /\ aliases[name] = canonical_name
              /\ Has(indices, canonical_name)
              /\ indices[canonical_name] = NodeOfAddress(address)
    /\ \A a \in DOMAIN addr2name : \A b \in DOMAIN addr2name :
         a # b => addr2name[a] # addr2name[b]

\* -------------------------------------------------- claims on intrinsics
\* the IR handling is over: every define has been visited
EdgesAdded == pc = "edges" /\ pending = {}
CalleeNames(name) ==
  {defines[name].callees[i].arg : i \in
     {j \in DOMAIN defines[name].callees : defines[name].callees[j].kind = "Direct"}}
CallsMemcpyIntrinsic(name) ==
  /\ Has(defines, name)
  /\ Has(aliases, name)
  /\ CalleeNames(name) \cap MemcpyIntrinsics # {}
\* the callers' names: every IR function whose canonical name is that of name
SameCaller(name) ==
  {other \in DOMAIN defines : Has(aliases, other) /\ aliases[other] = aliases[name]}
MemcpyNodes == {indices[t] : t \in Range(MemcpyTargets) \cap DOMAIN indices}

\* C11 as stated: on every target, with or without a decoder, the IR
\* handling of a direct call from a live defined function f to a
\* memcpy-family intrinsic adds an edge from f to every existing node among
\* memcpy, __aeabi_memcpy and __aeabi_memcpy4.
C11_MemcpyRewrittenOnEveryTarget ==
  EdgesAdded =>
    \A name \in DOMAIN defines :
      CallsMemcpyIntrinsic(name) =>
        \A callee \in MemcpyNodes : HasEdge(indices[aliases[name]], callee)

\* C11 amended: without a decoder the IR handling adds an edge from f to
\* every existing node among memcpy, __aeabi_memcpy and __aeabi_memcpy4; on
\* a decoder (thumb) target the IR handling drops the intrinsic, and f has
\* an edge to one of these nodes only when the IR calls it by name.
C11_MemcpyRewrittenWithoutDecoder ==
  EdgesAdded =>
    \A name \in DOMAIN defines :
      CallsMemcpyIntrinsic(name) =>
        \A callee \in MemcpyNodes :
          IF is_thumb
          THEN HasEdge(indices[aliases[name]], callee) =>
                 \E other \in SameCaller(name) :
                   \E func \in CalleeNames(other) \cap DOMAIN aliases :
                     indices[aliases[func]] = callee
          ELSE HasEdge(indices[aliases[name]], callee)

\* f calls the intrinsic on a target without a decoder, memcpy and
\* __aeabi_memcpy are linked in, and f has exactly these two callees
C11_Witness ==
  /\ EdgesAdded
  /\ ~is_thumb
  /\ CallsMemcpyIntrinsic("f")
  /\ DOMAIN indices = {"f", "memcpy", "__aeabi_memcpy"}
  /\ Succ(g, indices["f"]) = {indices["memcpy"], indices["__aeabi_memcpy"]}
  /\ Len(g.edges) = 2

\* ------------------------------------- claims on machine-code augmentation
\* every symbol has been analysed and no assertion failed
AnalysisDone == is_thumb /\ has_text /\ pc = "indirect"
NodeOfSymbol(a) == indices[aliases[symbols.defined[a].names[1]]]
CanonicalOf(a) == aliases[symbols.defined[a].names[1]]
\* the frame the compiler reports for the node of the symbol at a
CompilerStack(a) == StackSizes(symbols.defined, CanonicalOf(a))
Disagree(a) ==
  /\ CompilerStack(a) # NoStack
  /\ analyze[a].our_stack # NoStack
  /\ CompilerStack(a) # analyze[a].our_stack
DiagnosedNames == {d[2] : d \in diagnostics}

\* C12: whenever the compiler and the decoder both report a frame size for
\* a function and the two differ, the local usage of its node is
\* Exact(decoder value) and a diagnostic names the function, whatever kind
\* of function it is (outlined helpers with any compiler value included).
C12_DecoderWinsOnDisagreement ==
  AnalysisDone =>
    \A a \in DOMAIN symbols.defined :
      Disagree(a) =>
        /\ LocalOf(NodeOfSymbol(a)) = LocalExact(analyze[a].our_stack)
        /\ CanonicalOf(a) \in DiagnosedNames

\* ------------------------------------------------------ claims on the filter
Filtering == pc = "filter" /\ pc' = "propagate" /\ start # "none"
\* the entry point resolves: it is a key of the name index, or exactly one
\* key demangles to it followed by "::h"
Resolves ==
  \/ start \in DOMAIN indices
  \/ Cardinality({key \in DOMAIN indices : StartsWithHashed(key, start)}) = 1
EntryNode ==
  IF start \in DOMAIN indices THEN indices[start]
  ELSE indices[CHOOSE key \in DOMAIN indices : StartsWithHashed(key, start)]
EdgeCount(gr, u, v) == Cardinality({i \in DOMAIN gr.edges : gr.edges[i] = <<u, v>>})
Attributes(node) == <<node.name, node.local, node.dashed>>
\* new is old restricted to the nodes R, up to the numbering of the nodes
IsSubgraphOn(old, R, new) ==
  /\ Len(new.nodes) = Cardinality(R)
  /\ \E m \in [R -> NodeIds(new)] :
       /\ \A u \in R : \A v \in R : u # v => m[u] # m[v]
       /\ \A u \in R : Attributes(new.nodes[m[u]]) = Attributes(old.nodes[u])
       /\ \A u \in R : \A v \in R :
            EdgeCount(new, m[u], m[v]) = EdgeCount(old, u, v)
       /\ Len(new.edges) =
            Cardinality({i \in DOMAIN old.edges : old.edges[i][1] \in R})

\* C13: when an entry point is given and resolves, the graph handed to
\* propagation holds exactly the nodes reachable from the entry node, each
\* with its name, local usage and synthetic flag, and exactly the edges of
\* the original graph between them, none lost and none duplicated; when it
\* resolves to nothing or to several symbols a diagnostic is written and
\* the graph stays as it is.
C13_FilterKeepsReachableSubgraph ==
  [][Filtering =>
       IF Resolves
       THEN IsSubgraphOn(g, ReachFrom(g, {EntryNode}), g')
       ELSE g' = g /\ diagnostics' # diagnostics]_vars

\* a filter that dropped a node and kept at least two edges
C13_Witness ==
  /\ pc = "propagate"
  /\ start # "none"
  /\ indices = <<>>
  /\ Len(g.nodes) \in 2..(Cardinality(DOMAIN symbols.defined) - 1)
  /\ Len(g.edges) >= 2

\* ----------------------------------------------- claims on name shortening
Done == pc = "done"
DisplayName(i) == demangle(g.nodes[i].name)

\* C14: after the name-shortening phase no two nodes of the output graph
\* have the same display name.
C14_DisplayNamesDistinct ==
  Done =>
    \A i \in NodeIds(g) : \A j \in NodeIds(g) :
      i # j => DisplayName(i) # DisplayName(j)

\* ------------------------------------------------- claims on the edge set
\* C15: at every point of the construction and in the final graph there is
\* at most one edge for any ordered pair (caller, callee), whatever mix of
\* IR direct calls, intrinsic rewrites, call-like and plain machine-code
\* branches and indirect-call fan-out yields the pair, and however many IR
\* functions are aliases of the caller.
C15_EdgesAreASet ==
  \A i \in DOMAIN g.edges : \A j \in DOMAIN g.edges :
    i # j => g.edges[i] # g.edges[j]

\* on a decoder target f calls memcpy by name in the IR, its machine code
\* holds two BL to memcpy and one to __aeabi_memcpy, and the final graph
\* has these two edges
C15_Witness ==
  /\ Done
  /\ is_thumb
  /\ Has(defines, "f")
  /\ "memcpy" \in CalleeNames("f")
  /\ Has(analyze, 2)
  /\ analyze[2].bls = <<2, 4, 2>>
  /\ g.edges = <<<<1, 2>>, <<1, 3>>>>

\* ---------------------------------------- claims on indirect call records
Resolved == pc = "filter"

\* C16: every indirect call of a live IR-defined function f through a
\* signature S is recorded, so that once the resolver has run the graph has
\* an edge from the node of f to a synthetic node S*, also when no symbol of
\* the executable has signature S.
C16_IndirectCallRecorded ==
  Resolved =>
    \A name \in DOMAIN defines : \A sig \in Sigs :
      CallsThrough(name, sig) =>
        \E call \in PointerNodes(sig) : HasEdge(indices[aliases[name]], call)

\* -------------------------------------------- claims on untyped symbols
\* a defined symbol none of whose names the IR defines or declares
Untyped(a) ==
  \A name \in NamesAt(a) : ~Has(defines, name) /\ ~Has(declares, name)
SyntheticNodes == {i \in NodeIds(g) : g.nodes[i].dashed}
HasSentinel(call) ==
  \E s \in Succ(g, call) :
    g.nodes[s].name = "?" /\ LocalOf(s) = LocalUnknown /\ ~g.nodes[s].dashed
ReachesSynthetic(u) == ReachPlus(g, u) \cap SyntheticNodes # {}

\* C17 as stated: when some defined symbol is untyped, every synthetic
\* function-pointer node has an edge to a sentinel node of unknown local
\* usage, and every function with a recorded indirect call and each of its
\* transitive callers has a LowerBound bound.
C17_UntypedSymbolMakesLowerBound ==
  (AfterPropagation /\ \E a \in DOMAIN symbols.defined : Untyped(a)) =>
    /\ \A call \in SyntheticNodes : HasSentinel(call)
    /\ \A u \in NodeIds(g) :
         ReachesSynthetic(u) => Bound(u).tag = "LowerBound"

\* C17 amended: when some defined symbol that is not an outlined helper is
\* untyped, every synthetic function-pointer node has an edge to a sentinel
\* node of unknown local usage; and when propagation ran, every function
\* with a recorded indirect call and each of its transitive callers has a
\* LowerBound bound.
C17_UntypedNamedSymbolMakesLowerBound ==
  (/\ AfterPropagation
   /\ \E a \in DOMAIN symbols.defined :
        Untyped(a) /\ ~is_outlined_function(addr2name[a])) =>
    /\ \A call \in SyntheticNodes : HasSentinel(call)
    /\ has_stack_usage_info =>
         \A u \in NodeIds(g) :
           ReachesSynthetic(u) => Bound(u).tag = "LowerBound"

\* f is untyped, g calls through its own signature and h calls g: S* has
\* its sentinel, and g and h are bounded from below only
C17_Witness ==
  /\ Propagated
  /\ ~is_thumb
  /\ \E a \in DOMAIN symbols.defined : Untyped(a)
  /\ \E call \in SyntheticNodes : \E u \in NodeIds(g) : \E v \in NodeIds(g) :
       /\ HasSentinel(call)
       /\ HasEdge(v, call) /\ HasEdge(u, v) /\ ~HasEdge(u, call)
       /\ g.nodes[u].name = "h" /\ g.nodes[v].name = "g"
       /\ Succ(g, call) \ {v} # {}
       /\ Bound(u).tag = "LowerBound" /\ Bound(v).tag = "LowerBound"

\* --------------------------- claims on indirect calls seen by the decoder
HasBody(a) == \E name \in NamesAt(a) : Has(defines, name)
Sentinels(u) ==
  {s \in Succ(g, u) :
     g.nodes[s].name = "?" /\ LocalOf(s) = LocalUnknown /\ ~g.nodes[s].dashed}
Callers(u) == {v \in NodeIds(g) : u \in ReachFrom(g, {v})}
Decoded == is_thumb /\ has_text /\ AfterPropagation

\* C18 as stated: on a decoder target a defined symbol without IR body in
\* which the decoder finds an indirect call has an edge to a sentinel `?`
\* of unknown local usage, and its bound and the bound of each of its
\* transitive callers is LowerBound; a symbol with an IR body has no
\* sentinel edge.
C18_DecodedIndirectCallMakesLowerBound ==
  Decoded =>
    \A a \in DOMAIN symbols.defined :
      LET u == NodeOfSymbol(a)
      IN /\ (analyze[a].indirect /\ ~HasBody(a)) =>
              /\ Sentinels(u) # {}
              /\ \A v \in Callers(u) : Bound(v).tag = "LowerBound"
         /\ HasBody(a) => Sentinels(u) = {}

\* C18 amended: the sentinel edge is there as stated, and the bounds are
\* LowerBound when propagation ran.
C18_DecodedIndirectCallAddsSentinel ==
  Decoded =>
    \A a \in DOMAIN symbols.defined :
      LET u == NodeOfSymbol(a)
      IN /\ (analyze[a].indirect /\ ~HasBody(a)) =>
              /\ Sentinels(u) # {}
              /\ has_stack_usage_info =>
                   \A v \in Callers(u) : Bound(v).tag = "LowerBound"
         /\ HasBody(a) => Sentinels(u) = {}

\* the decoder finds an indirect call in OUTLINED_FUNCTION_7, which f calls
\* and the IR does not know, and an indirect call in f, which calls through
\* S in the IR
C18_Witness ==
  /\ Decoded
  /\ has_stack_usage_info
  /\ Has(symbols.defined, 2) /\ Has(symbols.defined, 8)
  /\ NamesAt(2) = {"OUTLINED_FUNCTION_7"}
  /\ analyze[2].indirect /\ ~HasBody(2)
  /\ Sentinels(1) # {}
  /\ HasEdge(2, 1)
  /\ analyze[8].indirect /\ HasBody(8) /\ Sentinels(2) = {}
  /\ Indirect("S") \in Range(defines["f"].callees)
  /\ Bound(1).tag = "LowerBound" /\ Bound(2).tag = "LowerBound"

\* ------------------------------------------- claims on the cross-check
\* the symbol analysed next fails the check `local # 0 iff modifies_sp`
Analysing == pc = "thumb" /\ pending # {}
CrossCheckFails(a) ==
  /\ Has(aliases, symbols.defined[a].names[1])
  /\ Has(analyze, a)
  /\ CheckedLocal(LocalOf(NodeOfSymbol(a)), CanonicalOf(a), analyze[a]) = Panic

\* C19: when a function fails the cross-check of its local usage against
\* the decoder's modifies-stack-pointer flag, the step writes a diagnostic
\* and the run goes on to the annotated graph instead of aborting.
C19_CrossCheckIsRecoverable ==
  [][(Analysing /\ CrossCheckFails(LeastOf(pending))) =>
       (pc' # "fatal" /\ diagnostics' # diagnostics)]_vars

\* ------------------------------------------- claims on plain branches
\* the extent of the symbol at a: its reported size, or for a size of zero
\* the distance from a code marker at a to the next code marker
ThumbTagsAfter(a) == {i \in DOMAIN tags : tags[i].kind = "Thumb" /\ tags[i].addr > a}
ExtentSize(a) ==
  IF symbols.defined[a].size # 0 THEN symbols.defined[a].size
  ELSE IF /\ \E i \in DOMAIN tags : tags[i].kind = "Thumb" /\ tags[i].addr = a
          /\ ThumbTagsAfter(a) # {}
       THEN LeastOf({tags[i].addr : i \in ThumbTagsAfter(a)}) - a
       ELSE 0
Targets(a, offsets) == {a + offsets[i] : i \in DOMAIN offsets}
InExtent(a, t) == t >= a /\ t < a + ExtentSize(a)
OutsideTargets(a) == {t \in Targets(a, analyze[a].bs) : ~InExtent(a, t)}
Decodable(a) == Has(aliases, symbols.defined[a].names[1]) /\ Has(analyze, a)

\* C20: when the machine code of a defined symbol is analysed, a plain
\* branch whose target lies inside the symbol's extent adds no edge, a plain
\* branch whose target lies outside adds an edge to the node of the symbol
\* at the target (the run is fatal when no symbol is there), and no plain
\* branch gives the symbol an edge to itself.
C20_PlainBranchesLeaveTheExtent ==
  [][(Analysing /\ Decodable(LeastOf(pending))) =>
       LET a == LeastOf(pending)
           u == NodeOfSymbol(a)
           calls == Targets(a, analyze[a].bls)
           new == Range(g'.edges) \ Range(g.edges)
       IN /\ \A t \in OutsideTargets(a) :
               IF Has(addr2name, t)
               THEN pc' # "fatal" => <<u, NodeOfAddress(t)>> \in Range(g'.edges)
               ELSE pc' = "fatal"
          /\ \A e \in new :
               /\ e[1] = u
               /\ \/ e[2] > Len(g.nodes)
                  \/ \E t \in calls \cup OutsideTargets(a) :
                       Has(addr2name, t) /\ e[2] = NodeOfAddress(t)
          /\ <<u, u>> \in new => a \in calls]_vars

\* m at 2 has a reported size of zero and starts at a code marker, the next
\* one being at 6; it branches to 4 and to 8, where n is: the only edge is
\* m -> n
C20_Witness ==
  /\ AnalysisDone
  /\ Has(symbols.defined, 2)
  /\ symbols.defined[2].size = 0
  /\ ExtentSize(2) = 4
  /\ analyze[2].bs = <<2, 6>>
  /\ analyze[2].bls = <<>>
  /\ g.edges = <<<<1, 2>>>>

\* ------------------------------------- claims on filtering and the bounds
\* gr with every bound unset, as the graph is before propagation
Unbounded(gr) ==
  [gr EXCEPT !.nodes = [i \in NodeIds(gr) |-> [gr.nodes[i] EXCEPT !.max = NoMax]]]
\* the propagation phase ends in this step
PropagationEnds == pc # "shorten" /\ pc' = "shorten"
\* m maps the nodes R of old to their copies in new
Correspondence(old, R, new, m) ==
  /\ \A u \in R : \A v \in R : u # v => m[u] # m[v]
  /\ \A u \in R : Attributes(new.nodes[m[u]]) = Attributes(old.nodes[u])
  /\ \A u \in R : \A v \in R :
       EdgeCount(new, m[u], m[v]) = EdgeCount(old, u, v)
SameBounds(old, R, new) ==
  /\ Len(new.nodes) = Cardinality(R)
  /\ \E m \in [R -> NodeIds(new)] :
       /\ Correspondence(old, R, new, m)
       /\ \A u \in R : new.nodes[m[u]].max = old.nodes[u].max

\* C21: when the entry point resolves, the bound that propagation computes
\* on the filtered graph for each node reachable from the entry is the bound
\* (tag and integer) that propagation computes for that node on the
\* unfiltered graph, whichever of the SCC and the topological path each of
\* the two graphs takes; the graph a run leaves when propagation ends is
\* the one compared here.
C21_FilterKeepsBounds ==
  [][/\ (Filtering /\ Resolves) =>
          SameBounds(Propagation(g), ReachFrom(g, {EntryNode}), Propagation(g'))
     /\ PropagationEnds => g' = Propagation(Unbounded(g'))]_vars

\* the unfiltered graph has the self-loop of the first foo and went through
\* the SCC path in the comparison; the filtered graph, from the symbol at 6,
\* is acyclic, has a callee and took the topological path
C21_Witness ==
  /\ AfterPropagation
  /\ has_stack_usage_info
  /\ start # "none"
  /\ indices = <<>>
  /\ Has(defines, FooOne)
  /\ Direct(FooOne) \in Range(defines[FooOne].callees)
  /\ ~is_cyclic_directed(g)
  /\ cycles = {}
  /\ Len(g.nodes) = 2
  /\ g.edges = <<<<1, 2>>>>
  /\ Bound(1).n = LocalOf(1).n + Bound(2).n

\* ------------------------------------- claims on the shortener's lookups
Shortening == pc = "shorten"
Prefix(name) == dehash(demangle(name))
HasHash(name) == Prefix(name) # "none"
\* another canonical name has the same dehashed prefix
SharesPrefix(name) ==
  \E a \in DOMAIN addr2name :
    addr2name[a] # name /\ Prefix(addr2name[a]) = Prefix(name)

\* C22: the name-shortening phase never fails: for every node of the graph
\* it is given (defined symbols, undefined callees, function-pointer nodes,
\* sentinels) the lookup of the dehashed prefix succeeds, and the display
\* name becomes the prefix exactly when the name has a hash suffix and no
\* other canonical name has that prefix.
C22_ShorteningNeverFails ==
  [][Shortening =>
       /\ pc' = "done"
       /\ \A i \in NodeIds(g) :
            g'.nodes[i].name =
              IF HasHash(g.nodes[i].name) /\ ~SharesPrefix(g.nodes[i].name)
              THEN Prefix(g.nodes[i].name)
              ELSE g.nodes[i].name]_vars
====
